---------------------------- MODULE Spec2Model ----------------------------
(***************************************************************************)
(* Model of examples/svg_render/src/main.rs: the SVG-to-mesh build phase   *)
(* followed by the interactive pan/zoom render loop.                       *)
(*                                                                         *)
(* Numbers.  The program computes in f32.  The model computes in exact     *)
(* rationals <<n, d>> (d > 0, lowest terms); rounding, overflow to         *)
(* infinity and underflow are outside the model, and every input is drawn  *)
(* from values on which the casts of the source (f64 -> f32, u32 -> f32)   *)
(* are exact.  The one cast that is not exact on its inputs, f32 -> u32    *)
(* of the window dimensions, is modelled as truncation.  The literals     *)
(* 0.8, 1.2 and 0.2 are 4/5, 6/5 and 1/5.                                  *)
(*                                                                         *)
(* Options.  Option<T> is a sequence of length at most one: None is <<>>,  *)
(* Some(x) is <<x>>.                                                       *)
(***************************************************************************)
EXTENDS Integers, Sequences, FiniteSets, TLC

VARIABLES
    argc,           \* args.len()
    rtree,          \* what resvg::parse_rtree_from_file finds in the file
    pc,             \* position of main
    usage_printed,  \* the usage message was written to stdout
    idx,            \* position of the descendants() iterator
    transform,      \* Option: transform of the first path node
    mesh,           \* VertexBuffers: [vertices, indices]
    scene,          \* Scene: [zoom, pan, proj]
    window,         \* dimensions handed to the WindowBuilder
    vbo,            \* Option: the vertex buffer on the GPU
    ibo,            \* Option: the index buffer on the GPU
    uploads,        \* number of create_vertex_buffer_with_slice calls
    cmds,           \* GPU/window calls issued in the current loop iteration
    status,         \* update_inputs' local `status`
    event,          \* the event last handed to the poll_events closure, if any
    presses         \* number of zoom and pan key presses handled so far

vars == <<argc, rtree, pc, usage_printed, idx, transform, mesh, scene, window,
          vbo, ibo, uploads, cmds, status, event, presses>>

---------------------------------------------------------------------------
(* Bounds of the model *)

MaxNodes == 2

MaxPresses == 3

\* The pairs of a zoom-out and a zoom-in press that are applied to a scene
MaxPairs == 2

---------------------------------------------------------------------------
(* Exact arithmetic standing for f32 *)

Abs(x) == IF x < 0 THEN -x ELSE x

RECURSIVE GCD(_, _)
GCD(a, b) == IF b = 0 THEN a ELSE GCD(b, a % b)

\* The rational n/d in lowest terms with a positive denominator (d # 0).
Rat(n, d) ==
    LET g == GCD(Abs(n), Abs(d))
        s == IF d < 0 THEN -1 ELSE 1
    IN  <<(s * n) \div g, (s * d) \div g>>

RInt(n) == <<n, 1>>

RAdd(a, b) == Rat(a[1] * b[2] + b[1] * a[2], a[2] * b[2])

RNeg(a) == <<-a[1], a[2]>>

RSub(a, b) == RAdd(a, RNeg(b))

RMul(a, b) == Rat(a[1] * b[1], a[2] * b[2])

\* a / b for b # 0
RDiv(a, b) == Rat(a[1] * b[2], a[2] * b[1])

RLt(a, b) == a[1] * b[2] < b[1] * a[2]

RPos(a) == a[1] > 0

\* f32::max
RMax(a, b) == IF RLt(a, b) THEN b ELSE a

\* `x as u32` of a non-negative value: truncation toward zero
AsU32(a) == a[1] \div a[2]

Zero == RInt(0)

One == RInt(1)

Two == RInt(2)

---------------------------------------------------------------------------
(* Program constants *)

WINDOW_SIZE == 800

FALLBACK_COLOR == "fallback"

---------------------------------------------------------------------------
(* The document: what the parser hands to main *)

None == <<>>

Some(x) == <<x>>

Transform(a, b, c, d, e, f) == [a |-> a, b |-> b, c |-> c, d |-> d, e |-> e, f |-> f]

Translate(e, f) == Transform(1, 0, 0, 1, e, f)

Color(c) == [kind |-> "Color", color |-> c]

LinearGradient == [kind |-> "LinearGradient", color |-> "n/a"]

Fill(paint, opacity) == [paint |-> paint, opacity |-> opacity]

Stroke(paint, opacity, width) == [paint |-> paint, opacity |-> opacity, width |-> width]

\* The geometry of a path: the number of points of its outline, and what the
\* two tessellators answer for it (an error for degenerate geometry).
PathData(pts, fill_err, stroke_err) ==
    [pts |-> pts, fill_err |-> fill_err, stroke_err |-> stroke_err]

Path(t, fill, stroke, data) ==
    [kind |-> "Path", transform |-> t, fill |-> fill, stroke |-> stroke, path |-> data]

Group(t) ==
    [kind |-> "Group", transform |-> t, fill |-> None, stroke |-> None,
     path |-> PathData(0, FALSE, FALSE)]

Half == <<1, 2>>

Transforms == {Translate(0, 0), Translate(3, -4), Transform(2, 0, 0, 2, -7, 5)}

Fills == {None, Some(Fill(Color("red"), Half)), Some(Fill(LinearGradient, One))}

Strokes == {None, Some(Stroke(Color("green"), Half, 2))}

PathDatas == {PathData(4, TRUE, FALSE), PathData(4, FALSE, TRUE)}

\* The nodes of the runs that explore the build phase: each transform with each
\* fill and stroke on sound geometry, and each tessellation failure
AllNodes ==
    {Group(t) : t \in Transforms}
    \cup {Path(t, f, s, PathData(3, FALSE, FALSE)) :
             t \in Transforms, f \in Fills, s \in Strokes}
    \cup {Path(Translate(3, -4), f, s, d) :
             f \in Fills, s \in Strokes \ {None}, d \in PathDatas}

\* The node of the runs that go on into the render loop
SampleNodes ==
    { Path(Transform(2, 0, 0, 2, -7, 5), Some(Fill(LinearGradient, One)),
           Some(Stroke(Color("green"), Half, 2)), PathData(3, FALSE, FALSE)) }

SeqsUpTo(S, n) == UNION {[1..k -> S] : k \in 0..n}

\* view-box sizes (width, height), all positive
ViewBoxSizes == {3, 50, 100}

AllViewBoxes == {<<w, h>> : w \in ViewBoxSizes, h \in ViewBoxSizes}

SampleViewBoxes == {<<100, 50>>, <<1, 3>>}

Tree(view_box, nodes) == [view_box |-> view_box, nodes |-> nodes]

\* Result of parse_rtree_from_file: Err is None, Ok(tree) is Some(tree)
ParseResults(boxes, nodes) ==
    {None} \cup {Some(Tree(vb, ns)) : vb \in boxes, ns \in SeqsUpTo(nodes, MaxNodes)}

---------------------------------------------------------------------------
(* Build phase: main, lines 22-76 *)

\* Faulty variant: only a missing argument is refused
BadArgs_Missing(n) == n < 2

\* args.len() != 2
BadArgs(n) == n # 2

\* Faulty variant: the last transform wins
FirstTransform_Last(t, node) == Some(node.transform)

\* use the first transform component
FirstTransform(t, node) == IF t = None THEN Some(node.transform) ELSE t

\* get paint or create default one: (paint, opacity)
FillPaint(fill) ==
    IF fill # None
    THEN [paint |-> fill[1].paint, opacity |-> fill[1].opacity]
    ELSE [paint |-> Color(FALLBACK_COLOR), opacity |-> One]

\* Faulty variant: the colour of the paint taken whatever its kind
PaintColor_AnyKind(paint) == paint.color

\* fall back to always use color fill
PaintColor(paint) == IF paint.kind = "Color" THEN paint.color ELSE FALLBACK_COLOR

\* svg_render::convert_stroke: (stroke_color, stroke_opts)
convert_stroke(stroke) ==
    [color |-> PaintColor(stroke.paint), opts |-> [line_width |-> stroke.width]]

\* VertexCtor::new(color, opacity): the vertex it makes of a point
VertexCtor(color, opacity) == [color |-> color, opacity |-> opacity]

NewVertex(ctor, point) == [pos |-> point, color |-> ctor.color, alpha |-> ctor.opacity]

EmptyMesh == [vertices |-> <<>>, indices |-> <<>>]

\* BuffersBuilder: nv vertices made by ctor and the triangles tris (triples of
\* vertex numbers 0..nv-1 of this geometry) appended to the buffers
AppendGeometry(m, ctor, nv, tris) ==
    LET offset == Len(m.vertices)
    IN  [vertices |-> m.vertices \o [i \in 1..nv |-> NewVertex(ctor, i)],
         indices  |-> m.indices \o
                      [k \in 1..(3 * Len(tris)) |->
                          offset + tris[((k - 1) \div 3) + 1][((k - 1) % 3) + 1]]]

\* FillTessellator::tessellate_path: a fan over the outline's points
FillTessellate(m, data, ctor) ==
    IF data.fill_err
    THEN [err |-> TRUE, mesh |-> m]
    ELSE [err |-> FALSE,
          mesh |-> AppendGeometry(m, ctor, data.pts,
                                  [i \in 1..(data.pts - 2) |-> <<0, i, i + 1>>])]

\* StrokeTessellator::tessellate_path: two vertices per point, two triangles
\* per segment of the closed outline
StrokeTessellate(m, data, ctor) ==
    IF data.stroke_err
    THEN [err |-> TRUE, mesh |-> m]
    ELSE [err |-> FALSE,
          mesh |-> AppendGeometry(m, ctor, 2 * data.pts,
                      [i \in 1..(2 * data.pts) |->
                          LET s == (i - 1) \div 2
                              a == 2 * s
                              b == 2 * s + 1
                              c == (2 * s + 2) % (2 * data.pts)
                              d == (2 * s + 3) % (2 * data.pts)
                          IN  IF i % 2 = 1 THEN <<a, b, c>> ELSE <<b, d, c>>])]

\* The fill pass of one path node, lines 46-63
FillPass(m, p) ==
    LET fp == FillPaint(p.fill)
    IN  FillTessellate(m, p.path, VertexCtor(PaintColor(fp.paint), fp.opacity))

\* .expect("Error during tesselation!") on the fill result: TRUE when it panics
ExpectPanics(res) == res.err

\* Faulty variant: the stroke tessellated into a buffer of its own, and only
\* its indices kept
StrokePass_OwnBuffer(m, p) ==
    IF p.stroke # None
    THEN LET cs == convert_stroke(p.stroke[1])
             own == StrokeTessellate(EmptyMesh, p.path,
                                     VertexCtor(cs.color, p.stroke[1].opacity)).mesh
         IN  [vertices |-> m.vertices, indices |-> m.indices \o own.indices]
    ELSE m

\* The stroke pass of one path node, lines 66-74: the result is dropped
StrokePass(m, p) ==
    IF p.stroke # None
    THEN LET cs == convert_stroke(p.stroke[1])
         IN  StrokeTessellate(m, p.path, VertexCtor(cs.color, p.stroke[1].opacity)).mesh
    ELSE m

---------------------------------------------------------------------------
(* Scene set-up: main, lines 85-116 *)

vb_width(tree) == RInt(tree.view_box[1])

vb_height(tree) == RInt(tree.view_box[2])

\* scale = vb_width / vb_height
Scale(tree) == RDiv(vb_width(tree), vb_height(tree))

\* get x and y translation
Translation(t) ==
    IF t # None THEN <<RInt(t[1].e), RInt(t[1].f)>> ELSE <<Zero, Zero>>

\* set window scale: (width, height)
WindowSize(scale) ==
    IF RLt(scale, One)
    THEN <<RInt(WINDOW_SIZE), RMul(RInt(WINDOW_SIZE), scale)>>
    ELSE <<RInt(WINDOW_SIZE), RDiv(RInt(WINDOW_SIZE), scale)>>

InitPan(w, h, trans) ==
    <<RAdd(RDiv(w, RInt(-2)), trans[1]), RAdd(RDiv(h, RInt(-2)), trans[2])>>

\* Faulty variant: the width taken for the larger dimension
InitZoom_Width(w, h) == RDiv(Two, w)

InitZoom(w, h) == RDiv(Two, RMax(w, h))

\* cgmath::ortho: the matrix as its four columns
Ortho(left, right, bottom, top, near, far) ==
    <<  <<RDiv(Two, RSub(right, left)), Zero, Zero, Zero>>,
        <<Zero, RDiv(Two, RSub(top, bottom)), Zero, Zero>>,
        <<Zero, Zero, RDiv(RInt(-2), RSub(far, near)), Zero>>,
        <<RNeg(RDiv(RAdd(right, left), RSub(right, left))),
          RNeg(RDiv(RAdd(top, bottom), RSub(top, bottom))),
          RNeg(RDiv(RAdd(far, near), RSub(far, near))),
          One>>  >>

\* cgmath::ortho(-scale, scale, -1.0, 1.0, -1.0, 1.0)
AspectProj(scl) == Ortho(RNeg(scl), scl, RInt(-1), One, RInt(-1), One)

\* Scene::new
SceneNew(zoom, pan, proj) == [zoom |-> zoom, pan |-> pan, proj |-> proj]

\* the scene of lines 104-109
InitScene(tree, t) ==
    SceneNew(InitZoom(vb_width(tree), vb_height(tree)),
             InitPan(vb_width(tree), vb_height(tree), Translation(t)),
             AspectProj(Scale(tree)))

\* with_dimensions(width as u32, height as u32)
WindowDimensions(tree) ==
    LET sz == WindowSize(Scale(tree)) IN <<AsU32(sz[1]), AsU32(sz[2])>>

\* the value of `scene` before line 109 runs (never read there)
NoScene == SceneNew(Zero, <<Zero, Zero>>, <<>>)

---------------------------------------------------------------------------
(* Input: update_inputs, lines 174-243 *)

NoKey == "None"

Ev(type, w, h, state, key) ==
    [type |-> type, w |-> w, h |-> h, state |-> state, key |-> key]

NoEvent == Ev("", 0, 0, "", NoKey)

RecognizedKeys == {"Escape", "LBracket", "RBracket", "Left", "Right", "Up", "Down"}

ZoomPanKeys == RecognizedKeys \ {"Escape"}

Keys == RecognizedKeys \cup {"A"}

ResizeDims == {<<800, 400>>, <<300, 600>>}

\* Everything the event loop can deliver
Events ==
    {Ev("Closed", 0, 0, "", NoKey)}
    \cup {Ev("Resized", d[1], d[2], "", NoKey) : d \in ResizeDims}
    \cup {Ev("KeyboardInput", 0, 0, "Pressed", k) : k \in Keys \cup {NoKey}}
    \cup {Ev("KeyboardInput", 0, 0, "Released", k) : k \in {"Escape", "LBracket"}}
    \cup {Ev("CursorMoved", 0, 0, "", NoKey), Ev("DeviceEvent", 0, 0, "", NoKey)}

\* Faulty variant: the key arm taken whatever the state of the key
Arm_AnyKeyState(e) ==
    CASE e.type = "Closed" -> "closed"
      [] e.type = "Resized" -> "resized"
      [] e.type = "KeyboardInput" /\ e.key # NoKey -> "key"
      [] OTHER -> "ignored"

\* The arm of the closure's match that an event takes
Arm(e) ==
    CASE e.type = "Closed" -> "closed"
      [] e.type = "Resized" -> "resized"
      [] e.type = "KeyboardInput" /\ e.state = "Pressed" /\ e.key # NoKey -> "key"
      [] OTHER -> "ignored"

ZOOM_OUT == <<4, 5>>

ZOOM_IN == <<6, 5>>

PAN_STEP == <<1, 5>>

\* Faulty variant: `-=` for `*=`
ZoomOut_Subtracts(s) == [s EXCEPT !.zoom = RSub(@, ZOOM_OUT)]

\* scene.zoom *= 0.8
ZoomOut(s) == [s EXCEPT !.zoom = RMul(@, ZOOM_OUT)]

\* Faulty variant: zooming in undoes zooming out
ZoomIn_Inverse(s) == [s EXCEPT !.zoom = RMul(@, <<5, 4>>)]

\* scene.zoom *= 1.2
ZoomIn(s) == [s EXCEPT !.zoom = RMul(@, ZOOM_IN)]

\* Faulty variant: the step multiplied by the zoom
PanLeft_TimesZoom(s) == [s EXCEPT !.pan[1] = RSub(@, RMul(PAN_STEP, s.zoom))]

\* scene.pan[0] -= 0.2 / scene.zoom
PanLeft(s) == [s EXCEPT !.pan[1] = RSub(@, RDiv(PAN_STEP, s.zoom))]

\* scene.pan[0] += 0.2 / scene.zoom
PanRight(s) == [s EXCEPT !.pan[1] = RAdd(@, RDiv(PAN_STEP, s.zoom))]

\* scene.pan[1] -= 0.2 / scene.zoom
PanUp(s) == [s EXCEPT !.pan[2] = RSub(@, RDiv(PAN_STEP, s.zoom))]

\* scene.pan[1] += 0.2 / scene.zoom
PanDown(s) == [s EXCEPT !.pan[2] = RAdd(@, RDiv(PAN_STEP, s.zoom))]

\* Faulty variant: the two bracket keys exchanged
KeyScene_BracketsSwapped(s, key) ==
    CASE key = "LBracket" -> ZoomIn(s)
      [] key = "RBracket" -> ZoomOut(s)
      [] key = "Left" -> PanLeft(s)
      [] key = "Right" -> PanRight(s)
      [] key = "Up" -> PanUp(s)
      [] key = "Down" -> PanDown(s)
      [] OTHER -> s

\* the scene after the `match key` of lines 211-235
KeyScene(s, key) ==
    CASE key = "LBracket" -> ZoomOut(s)
      [] key = "RBracket" -> ZoomIn(s)
      [] key = "Left" -> PanLeft(s)
      [] key = "Right" -> PanRight(s)
      [] key = "Up" -> PanUp(s)
      [] key = "Down" -> PanDown(s)
      [] OTHER -> s

\* Faulty variant: a key other than Escape sets status back to true
KeyStatus_Resets(st, key) == key # "Escape"

\* `status` after the `match key`
KeyStatus(st, key) == IF key = "Escape" THEN FALSE ELSE st

\* Scene::update_proj
update_proj(s, proj) == [s EXCEPT !.proj = proj]

\* Faulty variant: h / w for w / h
ResizedScene_Inverted(s, w, h) == update_proj(s, AspectProj(RDiv(RInt(h), RInt(w))))

\* the Resized arm, lines 193-194
ResizedScene(s, w, h) == update_proj(s, AspectProj(RDiv(RInt(w), RInt(h))))

\* scene.into(): what goes into the constant buffer
ToUniform(s) == [zoom |-> s.zoom, pan |-> s.pan, proj |-> s.proj]

---------------------------------------------------------------------------
(* The program *)

InitWith(argcs, results) ==
    /\ argc \in argcs
    /\ rtree \in results
    /\ pc = "main"
    /\ usage_printed = FALSE
    /\ idx = 1
    /\ transform = None
    /\ mesh = EmptyMesh
    /\ scene = NoScene
    /\ window = <<0, 0>>
    /\ vbo = None
    /\ ibo = None
    /\ uploads = 0
    /\ cmds = <<>>
    /\ status = TRUE
    /\ event = NoEvent
    /\ presses = 0

Init == InitWith({1, 2, 3}, ParseResults(SampleViewBoxes, SampleNodes))

buildVars == <<idx, transform, mesh>>

gpuVars == <<vbo, ibo, uploads, cmds>>

inputVars == <<status, event, presses>>

\* lines 23-27
CheckArgs ==
    /\ pc = "main"
    /\ IF BadArgs(argc)
       THEN usage_printed' = TRUE /\ pc' = "exit"
       ELSE usage_printed' = usage_printed /\ pc' = "parse"
    /\ UNCHANGED <<argc, rtree, buildVars, scene, window, gpuVars, inputVars>>

\* lines 29-37: parse_rtree_from_file(..).unwrap()
ParseFile ==
    /\ pc = "parse"
    /\ pc' = IF rtree = None THEN "panicked" ELSE "traverse"
    /\ idx' = 1
    /\ transform' = None
    /\ mesh' = EmptyMesh
    /\ UNCHANGED <<argc, rtree, usage_printed, scene, window, gpuVars, inputVars>>

\* Faulty variant: the stroke pass of a node made before its fill pass
VisitNode_StrokeFirst ==
    /\ pc = "traverse"
    /\ idx <= Len(rtree[1].nodes)
    /\ LET node == rtree[1].nodes[idx]
           fill == FillPass(StrokePass(mesh, node), node)
       IN  IF node.kind # "Path"
           THEN /\ idx' = idx + 1
                /\ UNCHANGED <<pc, transform, mesh>>
           ELSE /\ transform' = FirstTransform(transform, node)
                /\ mesh' = fill.mesh
                /\ IF ExpectPanics(fill)
                   THEN pc' = "panicked" /\ idx' = idx
                   ELSE pc' = pc /\ idx' = idx + 1
    /\ UNCHANGED <<argc, rtree, usage_printed, scene, window, gpuVars, inputVars>>

\* lines 38-76: one turn of the loop over rtree.root().descendants()
VisitNode ==
    /\ pc = "traverse"
    /\ idx <= Len(rtree[1].nodes)
    /\ LET node == rtree[1].nodes[idx]
           fill == FillPass(mesh, node)
       IN  IF node.kind # "Path"
           THEN /\ idx' = idx + 1
                /\ UNCHANGED <<pc, transform, mesh>>
           ELSE /\ transform' = FirstTransform(transform, node)
                /\ IF ExpectPanics(fill)
                   THEN /\ pc' = "panicked"
                        /\ mesh' = fill.mesh
                        /\ idx' = idx
                   ELSE /\ pc' = pc
                        /\ mesh' = StrokePass(fill.mesh, node)
                        /\ idx' = idx + 1
    /\ UNCHANGED <<argc, rtree, usage_printed, scene, window, gpuVars, inputVars>>

\* lines 78-111: the traversal is over; the scene is made
FinishTessellation ==
    /\ pc = "traverse"
    /\ idx > Len(rtree[1].nodes)
    /\ scene' = InitScene(rtree[1], transform)
    /\ pc' = "create_window"
    /\ UNCHANGED <<argc, rtree, usage_printed, buildVars, window, gpuVars, inputVars>>

\* lines 113-123
CreateWindow ==
    /\ pc = "create_window"
    /\ window' = WindowDimensions(rtree[1])
    /\ pc' = "setup_gpu"
    /\ UNCHANGED <<argc, rtree, usage_printed, buildVars, scene, gpuVars, inputVars>>

\* line 141: the two buffers the factory makes of the two slices
create_vertex_buffer_with_slice(vertices, indices) ==
    [vbo |-> Some(vertices), ibo |-> Some(indices)]

\* lines 125-145: link_program(..).unwrap(), create_pipeline_from_program(..)
\* .unwrap(), create_vertex_buffer_with_slice, the encoder, the constant buffer
SetupGpu ==
    /\ pc = "setup_gpu"
    /\ \E ok \in BOOLEAN :
          IF ok
          THEN /\ vbo' = create_vertex_buffer_with_slice(mesh.vertices, mesh.indices).vbo
               /\ ibo' = create_vertex_buffer_with_slice(mesh.vertices, mesh.indices).ibo
               /\ uploads' = uploads + 1
               /\ pc' = "loop"
          ELSE /\ pc' = "panicked"
               /\ UNCHANGED <<vbo, ibo, uploads>>
    /\ UNCHANGED <<argc, rtree, usage_printed, buildVars, scene, window,
                   cmds, inputVars>>

\* Faulty variant: the buffers are made anew at the head of every iteration
UpdateInputsBegin_Reuploads ==
    /\ pc = "loop"
    /\ status' = TRUE
    /\ cmds' = <<>>
    /\ pc' = "poll_events"
    /\ vbo' = Some(mesh.vertices)
    /\ ibo' = Some(mesh.indices)
    /\ uploads' = uploads + 1
    /\ UNCHANGED <<argc, rtree, usage_printed, buildVars, scene, window,
                   event, presses>>

\* lines 147-148, 179: a loop iteration starts, update_inputs is entered
UpdateInputsBegin ==
    /\ pc = "loop"
    /\ status' = TRUE
    /\ cmds' = <<>>
    /\ pc' = "poll_events"
    /\ UNCHANGED <<argc, rtree, usage_printed, buildVars, scene, window,
                   vbo, ibo, uploads, event, presses>>

\* lines 182-188
OnClosed ==
    /\ pc = "poll_events"
    /\ \E e \in Events :
          /\ Arm(e) = "closed"
          /\ event' = e
          /\ status' = FALSE
    /\ UNCHANGED <<argc, rtree, pc, usage_printed, buildVars, scene, window,
                   gpuVars, presses>>

\* lines 189-195
OnResized ==
    /\ pc = "poll_events"
    /\ \E e \in Events :
          /\ Arm(e) = "resized"
          /\ event' = e
          /\ scene' = ResizedScene(scene, e.w, e.h)
    /\ UNCHANGED <<argc, rtree, pc, usage_printed, buildVars, window, gpuVars,
                   status, presses>>

\* lines 196-238
OnKeyPressed ==
    /\ pc = "poll_events"
    /\ \E e \in Events :
          /\ Arm(e) = "key"
          /\ e.key \in ZoomPanKeys => presses < MaxPresses
          /\ event' = e
          /\ scene' = KeyScene(scene, e.key)
          /\ status' = KeyStatus(status, e.key)
          /\ presses' = IF e.key \in ZoomPanKeys THEN presses + 1 ELSE presses
    /\ UNCHANGED <<argc, rtree, pc, usage_printed, buildVars, window, gpuVars>>

\* line 239
OnOtherEvent ==
    /\ pc = "poll_events"
    /\ \E e \in Events :
          /\ Arm(e) = "ignored"
          /\ event' = e
    /\ UNCHANGED <<argc, rtree, pc, usage_printed, buildVars, scene, window,
                   gpuVars, status, presses>>

\* A call on the encoder, the device or the window, with the data it uploads
Cmd(op, data) == [op |-> op, data |-> data]

\* Faulty variant: the result of update_inputs is not looked at
Breaks_Never(st) == FALSE

\* whether main leaves the loop on this result of update_inputs, lines 148-150
Breaks(st) == ~st

\* line 242 and lines 148-150: the queue is drained, update_inputs returns
UpdateInputsReturn ==
    /\ pc = "poll_events"
    /\ pc' = IF Breaks(status) THEN "exit" ELSE "update_views"
    /\ event' = NoEvent
    /\ UNCHANGED <<argc, rtree, usage_printed, buildVars, scene, window,
                   gpuVars, status, presses>>

\* line 152
UpdateViews ==
    /\ pc = "update_views"
    /\ cmds' = Append(cmds, Cmd("update_views", None))
    /\ pc' = "clear"
    /\ UNCHANGED <<argc, rtree, usage_printed, buildVars, scene, window,
                   vbo, ibo, uploads, inputVars>>

\* line 154
Clear ==
    /\ pc = "clear"
    /\ cmds' = Append(cmds, Cmd("clear", None))
    /\ pc' = "update_constant_buffer"
    /\ UNCHANGED <<argc, rtree, usage_printed, buildVars, scene, window,
                   vbo, ibo, uploads, inputVars>>

\* Faulty variant: the scene uploaded is the one made before the loop
UpdateConstantBuffer_InitialScene ==
    /\ pc = "update_constant_buffer"
    /\ cmds' = Append(cmds, Cmd("update_constant_buffer",
                                Some(ToUniform(InitScene(rtree[1], transform)))))
    /\ pc' = "draw"
    /\ UNCHANGED <<argc, rtree, usage_printed, buildVars, scene, window,
                   vbo, ibo, uploads, inputVars>>

\* line 156
UpdateConstantBuffer ==
    /\ pc = "update_constant_buffer"
    /\ cmds' = Append(cmds, Cmd("update_constant_buffer", Some(ToUniform(scene))))
    /\ pc' = "draw"
    /\ UNCHANGED <<argc, rtree, usage_printed, buildVars, scene, window,
                   vbo, ibo, uploads, inputVars>>

\* lines 157-165: the buffers the draw call is handed, &ibo and vbo.clone()
DrawBuffers == [ibo |-> ibo, vbo |-> vbo]

\* lines 157-165
Draw ==
    /\ pc = "draw"
    /\ cmds' = Append(cmds, Cmd("draw", Some(DrawBuffers)))
    /\ pc' = "flush"
    /\ UNCHANGED <<argc, rtree, usage_printed, buildVars, scene, window,
                   vbo, ibo, uploads, inputVars>>

\* line 166
Flush ==
    /\ pc = "flush"
    /\ cmds' = Append(cmds, Cmd("flush", None))
    /\ pc' = "swap_buffers"
    /\ UNCHANGED <<argc, rtree, usage_printed, buildVars, scene, window,
                   vbo, ibo, uploads, inputVars>>

\* line 168: window.swap_buffers().unwrap()
SwapBuffers ==
    /\ pc = "swap_buffers"
    /\ \E ok \in BOOLEAN :
          IF ok
          THEN cmds' = Append(cmds, Cmd("swap_buffers", None)) /\ pc' = "cleanup"
          ELSE cmds' = cmds /\ pc' = "panicked"
    /\ UNCHANGED <<argc, rtree, usage_printed, buildVars, scene, window,
                   vbo, ibo, uploads, inputVars>>

\* line 170, and back to the head of the loop
Cleanup ==
    /\ pc = "cleanup"
    /\ cmds' = Append(cmds, Cmd("cleanup", None))
    /\ pc' = "loop"
    /\ UNCHANGED <<argc, rtree, usage_printed, buildVars, scene, window,
                   vbo, ibo, uploads, inputVars>>

Next ==
    \/ CheckArgs
    \/ ParseFile
    \/ VisitNode
    \/ FinishTessellation
    \/ CreateWindow
    \/ SetupGpu
    \/ UpdateInputsBegin
    \/ OnClosed
    \/ OnResized
    \/ OnKeyPressed
    \/ OnOtherEvent
    \/ UpdateInputsReturn
    \/ UpdateViews
    \/ Clear
    \/ UpdateConstantBuffer
    \/ Draw
    \/ Flush
    \/ SwapBuffers
    \/ Cleanup

Spec == Init /\ [][Next]_vars

---------------------------------------------------------------------------
(* The build and set-up phase alone, over many documents: main up to the    *)
(* head of the render loop                                                   *)

InitBuild == InitWith({2}, ParseResults(AllViewBoxes, AllNodes))

NextBuild ==
    \/ CheckArgs
    \/ ParseFile
    \/ VisitNode
    \/ FinishTessellation
    \/ CreateWindow
    \/ SetupGpu

SpecBuild == InitBuild /\ [][NextBuild]_vars

---------------------------------------------------------------------------
(* Vocabulary of the properties *)

Nodes == rtree[1].nodes

KeyPress(k) == Ev("KeyboardInput", 0, 0, "Pressed", k)

KeyRelease(k) == Ev("KeyboardInput", 0, 0, "Released", k)

Resized(w, h) == Ev("Resized", w, h, "", NoKey)

\* A close request: the window's Closed event or a press of Escape
IsCloseRequest(e) == e.type = "Closed" \/ e = KeyPress("Escape")

\* This step is the closure's handling of event e.  Every arm of the closure
\* leaves main inside poll_events, and nothing else does.
Handles(e) == pc = "poll_events" /\ pc' = "poll_events" /\ event' = e

\* The scene has been made (line 109)
SceneLive == scene # NoScene

\* The zoom the scene starts with, stated from the view-box
StartZoom ==
    LET w == rtree[1].view_box[1]
        h == rtree[1].view_box[2]
    IN  Rat(2, IF w < h THEN h ELSE w)

RECURSIVE RPow(_, _)
RPow(a, n) == IF n = 0 THEN One ELSE RMul(a, RPow(a, n - 1))

MinOf(S) == CHOOSE i \in S : \A j \in S : i <= j

\* The transform of the first path node of ns, if there is one
FirstPathTransform(ns) ==
    LET P == {i \in 1..Len(ns) : ns[i].kind = "Path"}
    IN  IF P = {} THEN None ELSE Some(ns[MinOf(P)].transform)

---------------------------------------------------------------------------
(* C1 *)

\* C1: once update_inputs has handled a window Closed event or a pressed
\* Escape, status is false; and from any state where status is false the loop
\* issues no further call (no clear, uniform upload, draw or present), status
\* stays false, and main can only finish the drain and leave the loop.
C1_NoDrawAfterClose ==
    /\ [](pc = "poll_events" /\ IsCloseRequest(event) => ~status)
    /\ [][~status => /\ ~status'
                     /\ cmds' = cmds
                     /\ pc' \in {"poll_events", "exit"}]_vars

\* A close handled in an iteration after keys were handled, and the loop left
C1_Witness == pc = "exit" /\ ~status /\ presses > 0 /\ uploads = 1

---------------------------------------------------------------------------
(* C2 *)

\* C2: whenever the scene exists, its zoom is strictly positive: after the
\* initialization from the view-box and after every sequence of events.
C2_ZoomPositive == SceneLive => (scene.zoom[1] > 0 /\ scene.zoom[2] > 0)

\* The zoom after three zoom-out presses in a row is still above zero
C2_Witness ==
    /\ SceneLive
    /\ presses = 3
    /\ event = KeyPress("LBracket")
    /\ RLt(scene.zoom, RMul(StartZoom, <<13, 25>>))
    /\ RPos(scene.zoom)

---------------------------------------------------------------------------
(* C3 *)

\* C3: a tessellation failure never aborts the build: main never panics
\* between the parse of the document and the making of the scene.
C3_TessellationFailureNonFatal ==
    ~(pc = "panicked" /\ rtree # None /\ ~SceneLive)

---------------------------------------------------------------------------
(* C4 *)

\* C4: the visit of a path node with no fill and no stroke leaves
\* mesh.vertices and mesh.indices as they were.
C4_UnpaintedShapeAddsNothing ==
    [][(/\ pc = "traverse"
        /\ idx <= Len(Nodes)
        /\ Nodes[idx].kind = "Path"
        /\ Nodes[idx].fill = None
        /\ Nodes[idx].stroke = None) => mesh' = mesh]_vars

---------------------------------------------------------------------------
(* C5 *)

\* C5: a handled press of LBracket multiplies zoom by 4/5 and a handled press
\* of RBracket multiplies it by 6/5, pan, projection and status staying as
\* they were; so the zoom is always the starting zoom times (4/5)^a (6/5)^b
\* for the a zoom-out and b zoom-in presses handled, and three zoom-out
\* presses alone give 64/125 = 0.512 times the starting zoom.
C5_ZoomKeys ==
    /\ [][/\ Handles(KeyPress("LBracket")) =>
                /\ scene'.zoom = Rat(4 * scene.zoom[1], 5 * scene.zoom[2])
                /\ scene'.pan = scene.pan
                /\ scene'.proj = scene.proj
                /\ status' = status
          /\ Handles(KeyPress("RBracket")) =>
                /\ scene'.zoom = Rat(6 * scene.zoom[1], 5 * scene.zoom[2])
                /\ scene'.pan = scene.pan
                /\ scene'.proj = scene.proj
                /\ status' = status]_vars
    /\ [](SceneLive =>
            \E a \in 0..presses : \E b \in 0..(presses - a) :
                scene.zoom = RMul(StartZoom, RMul(RPow(<<4, 5>>, a), RPow(<<6, 5>>, b))))
    /\ [](SceneLive /\ presses = 3 /\ scene.pan = InitScene(rtree[1], transform).pan
            /\ RLt(scene.zoom, RMul(StartZoom, <<3, 5>>))
          => scene.zoom = RMul(StartZoom, <<512, 1000>>))

\* Three zoom-out presses and nothing else handled
C5_Witness ==
    /\ SceneLive
    /\ presses = 3
    /\ scene.zoom = RMul(StartZoom, <<512, 1000>>)
    /\ scene.pan = InitScene(rtree[1], transform).pan
    /\ scene.proj = InitScene(rtree[1], transform).proj
    /\ status

---------------------------------------------------------------------------
(* C6 *)

\* The pan step of the claim at zoom z: 0.2 / z
ClaimedStep(z) == Rat(z[2], 5 * z[1])

\* C6: a handled press of an arrow key changes one pan component by 0.2 / zoom
\* at the zoom of that moment (Left: pan[0] less, Right: pan[0] more, Up:
\* pan[1] less, Down: pan[1] more) and leaves the other component, the zoom
\* and the projection as they were.
C6_PanKeys ==
    [][/\ Handles(KeyPress("Left")) =>
            /\ scene'.pan[1] = RSub(scene.pan[1], ClaimedStep(scene.zoom))
            /\ scene'.pan[2] = scene.pan[2]
       /\ Handles(KeyPress("Right")) =>
            /\ scene'.pan[1] = RAdd(scene.pan[1], ClaimedStep(scene.zoom))
            /\ scene'.pan[2] = scene.pan[2]
       /\ Handles(KeyPress("Up")) =>
            /\ scene'.pan[2] = RSub(scene.pan[2], ClaimedStep(scene.zoom))
            /\ scene'.pan[1] = scene.pan[1]
       /\ Handles(KeyPress("Down")) =>
            /\ scene'.pan[2] = RAdd(scene.pan[2], ClaimedStep(scene.zoom))
            /\ scene'.pan[1] = scene.pan[1]
       /\ (\E k \in {"Left", "Right", "Up", "Down"} : Handles(KeyPress(k))) =>
            /\ scene'.zoom = scene.zoom
            /\ scene'.proj = scene.proj]_vars

\* A press of Left handled after the zoom was changed: the pan has moved by
\* the step of the changed zoom, which is not the step of the starting zoom
C6_Witness ==
    /\ SceneLive
    /\ pc = "poll_events"
    /\ event = KeyPress("Left")
    /\ presses = 2
    /\ scene.zoom = RMul(StartZoom, <<6, 5>>)
    /\ scene.pan[1] = RSub(InitScene(rtree[1], transform).pan[1], ClaimedStep(scene.zoom))
    /\ scene.pan[1] # RSub(InitScene(rtree[1], transform).pan[1], ClaimedStep(StartZoom))

---------------------------------------------------------------------------
(* C7 *)

\* C7: the scene starts with zoom = 2 / max(w, h) and
\* pan = (-w/2 + tx, -h/2 + ty) for the view-box (w, h) and the translation
\* (tx, ty) read from `transform`; a 100x50 view-box gives zoom 1/50 and
\* pan = (-50 + tx, -25 + ty).
C7_InitialScene ==
    pc = "create_window" =>
        LET w == rtree[1].view_box[1]
            h == rtree[1].view_box[2]
            tx == IF transform = None THEN 0 ELSE transform[1].e
            ty == IF transform = None THEN 0 ELSE transform[1].f
        IN  /\ scene.zoom = Rat(2, IF w >= h THEN w ELSE h)
            /\ scene.pan = <<Rat(2 * tx - w, 2), Rat(2 * ty - h, 2)>>
            /\ (w = 100 /\ h = 50) =>
                  /\ scene.zoom = <<1, 50>>
                  /\ scene.pan = <<RInt(tx - 50), RInt(ty - 25)>>

\* A view-box higher than wide, with a translation that is not zero
C7_Witness ==
    /\ pc = "create_window"
    /\ rtree[1].view_box = <<50, 100>>
    /\ transform = Some(Translate(3, -4))
    /\ scene.zoom = <<1, 50>>
    /\ scene.pan = <<RInt(-22), RInt(-54)>>

---------------------------------------------------------------------------
(* C8 *)

\* C8: all through the traversal and after it, `transform` is the transform of
\* the first path node among the nodes visited, and None when none of them is
\* a path node; once set, later nodes do not change it.  So the translation of
\* the initial pan is that of the first path node of the document, or (0, 0).
C8_FirstTransformWins ==
    /\ pc \in {"traverse", "create_window", "setup_gpu", "loop"} =>
          transform = FirstPathTransform(SubSeq(Nodes, 1, idx - 1))
    /\ pc \in {"create_window", "setup_gpu", "loop"} =>
          /\ idx = Len(Nodes) + 1
          /\ scene.pan[1] = Rat(2 * Translation(FirstPathTransform(Nodes))[1][1]
                                  - rtree[1].view_box[1], 2)
          /\ scene.pan[2] = Rat(2 * Translation(FirstPathTransform(Nodes))[2][1]
                                  - rtree[1].view_box[2], 2)

\* Two path nodes with different transforms: the first one's is the one kept
C8_Witness ==
    /\ pc = "create_window"
    /\ Len(Nodes) = 2
    /\ Nodes[1].kind = "Path"
    /\ Nodes[2].kind = "Path"
    /\ Nodes[1].transform # Nodes[2].transform
    /\ transform = Some(Nodes[1].transform)
    /\ Nodes[1].transform.e # 0

---------------------------------------------------------------------------
(* C9 *)

\* C9: a handled Resized(w, h) sets the projection to the orthographic matrix
\* of the extents (-w/h, w/h, -1, 1, -1, 1), whatever it was before, and
\* leaves zoom and pan as they were.
C9_ResizeProjection ==
    [][\A d \in ResizeDims :
          Handles(Resized(d[1], d[2])) =>
            /\ scene'.proj = << <<Rat(d[2], d[1]), Zero, Zero, Zero>>,
                                <<Zero, One, Zero, Zero>>,
                                <<Zero, Zero, RInt(-1), Zero>>,
                                <<Zero, Zero, Zero, One>> >>
            /\ scene'.zoom = scene.zoom
            /\ scene'.pan = scene.pan]_vars

\* A resize to 300x600 handled after zoom and pan were changed
C9_Witness ==
    /\ pc = "poll_events"
    /\ event = Resized(300, 600)
    /\ scene.proj[1][1] = <<2, 1>>
    /\ scene.zoom # StartZoom
    /\ scene.pan # InitScene(rtree[1], transform).pan

---------------------------------------------------------------------------
(* C10 *)

\* The events the claim calls ignored: not a close request, not a resize,
\* not a press of a recognized key
IgnoredEvents ==
    {e \in Events :
        /\ e.type # "Closed"
        /\ e.type # "Resized"
        /\ ~(e.type = "KeyboardInput" /\ e.state = "Pressed" /\ e.key \in RecognizedKeys)}

\* C10: the handling of any event that is neither a close request, nor a
\* resize, nor a press of one of the seven recognized keys leaves zoom, pan,
\* projection and status as they were.
C10_OtherInputIgnored ==
    [][\A e \in IgnoredEvents :
          Handles(e) => (scene' = scene /\ status' = status)]_vars

\* The release of Escape was handled and the loop is still running
C10_Witness ==
    /\ pc = "poll_events"
    /\ event = KeyRelease("Escape")
    /\ status
    /\ presses > 0

---------------------------------------------------------------------------
(* C11 *)

\* C11: when the program is started with an argument vector of any length but
\* two (the program's name and one path), main never gets past the check of
\* the arguments: it can only be at its start or have returned, it has printed
\* the usage message when it has returned, it never panics, and nothing has
\* been parsed, tessellated, created, uploaded or drawn.
C11_UsageOnBadArgs ==
    argc # 2 =>
        /\ pc \in {"main", "exit"}
        /\ pc = "exit" => usage_printed
        /\ idx = 1 /\ transform = None /\ mesh = EmptyMesh
        /\ scene = NoScene
        /\ window = <<0, 0>>
        /\ vbo = None /\ ibo = None /\ uploads = 0
        /\ cmds = <<>>

\* An extra argument: the usage is printed and main has returned
C11_Witness == argc = 3 /\ pc = "exit" /\ usage_printed /\ uploads = 0

---------------------------------------------------------------------------
(* C12 *)

\* The vertices that the visit of node n puts first into the buffer: those of
\* its fill pass, as they stand after the visit
FillVertices(n) ==
    [i \in 1..n.path.pts |-> mesh'.vertices[Len(mesh.vertices) + i]]

\* C12: the vertices made by the fill pass of a path node carry the colour c
\* and the fill's opacity when the fill's paint is Color(c), and
\* FALLBACK_COLOR with the fill's opacity when it is any other paint; a node
\* with no fill is filled with FALLBACK_COLOR at opacity 1.  No other colour
\* reaches the vertices of a fill.
C12_FillColor ==
    [][(/\ pc = "traverse"
        /\ idx <= Len(Nodes)
        /\ Nodes[idx].kind = "Path"
        /\ ~Nodes[idx].path.fill_err) =>
          LET n == Nodes[idx]
          IN  \A i \in 1..n.path.pts :
                LET v == FillVertices(n)[i]
                IN  /\ (n.fill # None /\ n.fill[1].paint.kind = "Color") =>
                          /\ v.color = n.fill[1].paint.color
                          /\ v.alpha = n.fill[1].opacity
                    /\ (n.fill # None /\ n.fill[1].paint.kind # "Color") =>
                          /\ v.color = FALLBACK_COLOR
                          /\ v.alpha = n.fill[1].opacity
                    /\ n.fill = None =>
                          /\ v.color = FALLBACK_COLOR
                          /\ v.alpha = One
                    /\ v.color \in {FALLBACK_COLOR} \cup
                          {f[1].paint.color : f \in {g \in Fills \ {None} :
                                                        g[1].paint.kind = "Color"}}]_vars

\* A gradient fill and then a red fill at opacity 1/2 have been tessellated
C12_Witness ==
    /\ pc = "traverse"
    /\ Len(Nodes) = 2
    /\ idx = 3
    /\ Nodes[1].fill = Some(Fill(LinearGradient, One))
    /\ Nodes[1].stroke = None
    /\ Nodes[2].fill = Some(Fill(Color("red"), Half))
    /\ mesh.vertices[1].color = FALLBACK_COLOR
    /\ mesh.vertices[1].alpha = One
    /\ mesh.vertices[Nodes[1].path.pts + 1].color = "red"
    /\ mesh.vertices[Nodes[1].path.pts + 1].alpha = Half

---------------------------------------------------------------------------
(* C13 *)

\* Every index of the sequence ixs names one of nv vertices, and the indices
\* come in triangles
WellIndexed(ixs, nv) ==
    /\ \A i \in 1..Len(ixs) : ixs[i] \in 0..(nv - 1)
    /\ Len(ixs) % 3 = 0

\* C13: in every state of the build, whatever fill and stroke calls have been
\* made on whatever shapes (calls whose failure is dropped included), every
\* index of mesh.indices is smaller than the number of vertices of
\* mesh.vertices and the number of indices is a multiple of three; and the
\* same holds of the pair of buffers uploaded to the GPU.
C13_IndicesInRange ==
    /\ WellIndexed(mesh.indices, Len(mesh.vertices))
    /\ vbo # None => (ibo # None /\ WellIndexed(ibo[1], Len(vbo[1])))

\* The buffers were uploaded after a stroke failed and was dropped on the first
\* shape and a fill and a stroke were added by the second: the last vertex is
\* referred to
C13_Witness ==
    /\ pc = "loop"
    /\ vbo # None
    /\ Len(Nodes) = 2
    /\ Nodes[1].kind = "Path" /\ Nodes[1].stroke # None /\ Nodes[1].path.stroke_err
    /\ Nodes[2].kind = "Path" /\ Nodes[2].stroke # None /\ ~Nodes[2].path.stroke_err
    /\ Len(vbo[1]) = Nodes[1].path.pts + 3 * Nodes[2].path.pts
    /\ \E i \in 1..Len(ibo[1]) : ibo[1][i] = Len(vbo[1]) - 1

---------------------------------------------------------------------------
(* C14 *)

\* main is in its build and set-up phase, lines 22-145
BuildPcs == {"main", "parse", "traverse", "create_window", "setup_gpu"}

\* main is inside the render loop, lines 147-171
LoopPcs ==
    {"loop", "poll_events", "update_views", "clear", "update_constant_buffer",
     "draw", "flush", "swap_buffers", "cleanup"}

\* C14: the vertex and index buffers are uploaded exactly once, by the step
\* that leaves the set-up for the loop, when every node has been visited and
\* before any call of the loop; they hold the whole mesh.  No step inside the
\* loop, the handling of an event included, changes the mesh or the buffers or
\* uploads again, and every draw call is handed that same pair.
C14_MeshStatic ==
    /\ [](uploads <= 1)
    /\ [](pc \in BuildPcs => (uploads = 0 /\ vbo = None /\ ibo = None /\ cmds = <<>>))
    /\ [](pc \in LoopPcs =>
            /\ uploads = 1
            /\ idx = Len(Nodes) + 1
            /\ vbo = Some(mesh.vertices)
            /\ ibo = Some(mesh.indices))
    /\ [][uploads' # uploads => (pc = "setup_gpu" /\ pc' = "loop")]_vars
    /\ [][(pc \in LoopPcs) =>
            (mesh' = mesh /\ vbo' = vbo /\ ibo' = ibo /\ uploads' = uploads)]_vars
    /\ [](\A i \in 1..Len(cmds) :
            cmds[i].op = "draw" =>
                cmds[i].data = Some([ibo |-> Some(mesh.indices),
                                     vbo |-> Some(mesh.vertices)]))

\* A frame drawn after a key press and a resize were handled: one upload, and
\* the draw call is handed the buffers of the whole mesh
C14_Witness ==
    /\ pc = "flush"
    /\ presses > 0
    /\ scene.proj # InitScene(rtree[1], transform).proj
    /\ uploads = 1
    /\ Len(mesh.vertices) > 0
    /\ Len(cmds) = 4
    /\ cmds[4] = Cmd("draw", Some([ibo |-> Some(mesh.indices),
                                   vbo |-> Some(mesh.vertices)]))

---------------------------------------------------------------------------
(* C15 *)

\* The calls of one iteration that is not left by the break, in the order of
\* the claim: refresh views, clear, upload the uniform, draw, (flush,) present,
\* (clean up)
FrameOrder ==
    <<"update_views", "clear", "update_constant_buffer", "draw", "flush",
      "swap_buffers", "cleanup">>

Ops(cs) == [i \in 1..Len(cs) |-> cs[i].op]

\* C15: the calls of an iteration are made in the order refresh views, clear,
\* upload the uniform, draw, flush, present, clean up, each once, and only
\* after the drain of the events is over with status true: no call is made
\* while events are handled, and the scene changes only while they are.  The
\* uniform uploaded is (zoom, pan, proj) of the scene as the drain of that
\* iteration left it, which is the scene the draw is made with.
C15_FrameOrder ==
    /\ [](/\ Len(cmds) <= Len(FrameOrder)
          /\ Ops(cmds) = SubSeq(FrameOrder, 1, Len(cmds)))
    /\ [](pc = "poll_events" => cmds = <<>>)
    /\ [](pc = "loop" /\ cmds # <<>> => Ops(cmds) = FrameOrder)
    /\ [](\A i \in 1..Len(cmds) :
            cmds[i].op = "update_constant_buffer" =>
                cmds[i].data = Some([zoom |-> scene.zoom,
                                     pan  |-> scene.pan,
                                     proj |-> scene.proj]))
    /\ [][(Len(cmds') > Len(cmds)) =>
            (status /\ pc # "poll_events" /\ scene' = scene)]_vars
    /\ [][(pc \in LoopPcs /\ scene' # scene) =>
            (pc = "poll_events" /\ pc' = "poll_events" /\ cmds = <<>>)]_vars

\* An iteration has run to its end after zoom, pan and projection were changed
\* by events: all seven calls in order, the uniform being the changed scene
C15_Witness ==
    /\ pc = "loop"
    /\ Ops(cmds) = FrameOrder
    /\ scene.zoom # StartZoom
    /\ scene.pan # InitScene(rtree[1], transform).pan
    /\ scene.proj # InitScene(rtree[1], transform).proj
    /\ cmds[3].data = Some([zoom |-> scene.zoom, pan |-> scene.pan, proj |-> scene.proj])

---------------------------------------------------------------------------
(* C16 *)

IsPrefix(a, b) == Len(a) <= Len(b) /\ SubSeq(b, 1, Len(a)) = a

\* The vertices of the fill of path node n, then those of its stroke: what the
\* claim calls the contribution of the shape.  A pass that fails adds nothing.
Contribution(n) ==
    IF n.kind # "Path" \/ n.path.fill_err
    THEN <<>>
    ELSE LET fp == FillPaint(n.fill)
             ofFill == [i \in 1..n.path.pts |->
                          [pos |-> i, color |-> PaintColor(fp.paint), alpha |-> fp.opacity]]
             ofStroke ==
                 IF n.stroke = None \/ n.path.stroke_err
                 THEN <<>>
                 ELSE [i \in 1..(2 * n.path.pts) |->
                          [pos   |-> i,
                           color |-> PaintColor(n.stroke[1].paint),
                           alpha |-> n.stroke[1].opacity]]
         IN  ofFill \o ofStroke

\* The contributions of the first k nodes of ns, one after the other
RECURSIVE Contributions(_, _)
Contributions(ns, k) ==
    IF k = 0 THEN <<>> ELSE Contributions(ns, k - 1) \o Contribution(ns[k])

\* C16: no step changes or reorders what is in the mesh already: the vertices
\* and the indices before a step are a prefix of those after it.  The visit of
\* a path node appends its fill and then its stroke: the indices it appends
\* refer first to the vertices of its fill and then to those of its stroke,
\* never to vertices of earlier shapes.  So at every moment of the traversal,
\* and when it is over, the vertices are the contributions (fill, then stroke)
\* of the nodes visited so far, in document order.
C16_AppendOnly ==
    /\ [][/\ IsPrefix(mesh.vertices, mesh'.vertices)
          /\ IsPrefix(mesh.indices, mesh'.indices)]_vars
    /\ [][(pc = "traverse" /\ idx <= Len(Nodes) /\ Nodes[idx].kind = "Path") =>
            LET old == Len(mesh.vertices)
                mid == old + (IF Nodes[idx].path.fill_err THEN 0 ELSE Nodes[idx].path.pts)
                new == Len(mesh'.vertices)
            IN  \E split \in Len(mesh.indices)..Len(mesh'.indices) :
                   /\ \A i \in (Len(mesh.indices) + 1)..split :
                          mesh'.indices[i] \in old..(mid - 1)
                   /\ \A i \in (split + 1)..Len(mesh'.indices) :
                          mesh'.indices[i] \in mid..(new - 1)]_vars
    /\ [](pc \in {"traverse", "create_window", "setup_gpu", "loop"} =>
            mesh.vertices = Contributions(Nodes, idx - 1))
    /\ [](pc \in {"create_window", "setup_gpu", "loop"} =>
            mesh.vertices = Contributions(Nodes, Len(Nodes)))

\* Two path nodes, each with a fill and a stroke of another colour, have been
\* visited: fill, stroke, fill, stroke
C16_Witness ==
    /\ pc = "create_window"
    /\ Len(Nodes) = 2
    /\ \A k \in 1..2 :
          /\ Nodes[k].kind = "Path"
          /\ Nodes[k].fill = Some(Fill(Color("red"), Half))
          /\ Nodes[k].stroke # None
          /\ ~Nodes[k].path.stroke_err
    /\ Len(mesh.vertices) = 3 * Nodes[1].path.pts + 3 * Nodes[2].path.pts
    /\ mesh.vertices[1].color = "red"
    /\ mesh.vertices[Nodes[1].path.pts + 1].color = "green"
    /\ mesh.vertices[3 * Nodes[1].path.pts + 1].color = "red"
    /\ mesh.vertices[Len(mesh.vertices)].color = "green"

---------------------------------------------------------------------------
(* C17 *)

\* C17: inside a drain, once status is false no event of the same batch sets
\* it back to true, and update_inputs returns it false.  The events that come
\* after the close request are handled all the same: a zoom key still scales
\* the zoom, an arrow key still moves the pan, a resize still sets the
\* projection; main leaves the loop only when the drain is over.
C17_CloseIsSticky ==
    [][/\ (pc = "poll_events" /\ ~status) => ~status'
       /\ (~status /\ pc' = "exit") => (pc = "poll_events" /\ scene' = scene)
       /\ (~status /\ Handles(KeyPress("LBracket"))) =>
             scene'.zoom = Rat(4 * scene.zoom[1], 5 * scene.zoom[2])
       /\ (~status /\ Handles(KeyPress("RBracket"))) =>
             scene'.zoom = Rat(6 * scene.zoom[1], 5 * scene.zoom[2])
       /\ (~status /\ Handles(KeyPress("Left"))) =>
             scene'.pan[1] = RSub(scene.pan[1], ClaimedStep(scene.zoom))
       /\ (~status /\ Handles(KeyPress("Right"))) =>
             scene'.pan[1] = RAdd(scene.pan[1], ClaimedStep(scene.zoom))
       /\ (~status /\ Handles(KeyPress("Up"))) =>
             scene'.pan[2] = RSub(scene.pan[2], ClaimedStep(scene.zoom))
       /\ (~status /\ Handles(KeyPress("Down"))) =>
             scene'.pan[2] = RAdd(scene.pan[2], ClaimedStep(scene.zoom))
       /\ \A d \in ResizeDims :
             (~status /\ Handles(Resized(d[1], d[2]))) =>
                 scene'.proj = AspectProj(Rat(d[1], d[2]))]_vars

\* The only zoom press of the run was handled after the close request of the
\* same drain: the zoom is scaled and status is still false
C17_Witness ==
    /\ pc = "poll_events"
    /\ ~status
    /\ event = KeyPress("LBracket")
    /\ presses = 1
    /\ scene.zoom = RMul(StartZoom, <<4, 5>>)

---------------------------------------------------------------------------
(* C18 *)

\* C18: for every view-box, the horizontal extent of the projection the scene
\* starts with, vb_width / vb_height, is width / height of the window that
\* main asks for, so that the projection is the one the Resized arm would set
\* for that window.
C18_InitialProjectionMatchesWindow ==
    pc = "setup_gpu" =>
        /\ Rat(rtree[1].view_box[1], rtree[1].view_box[2]) = Rat(window[1], window[2])
        /\ scene.proj = ResizedScene(scene, window[1], window[2]).proj

---------------------------------------------------------------------------
(* C19 *)

\* The scene after k pairs of presses, each pair being key `first` and then
\* key `second`
RECURSIVE PressPairs(_, _, _, _)
PressPairs(s, first, second, k) ==
    IF k = 0
    THEN s
    ELSE PressPairs(KeyScene(KeyScene(s, first), second), first, second, k - 1)

\* C19: from every scene that an iteration of the loop starts with, a press of
\* LBracket and a press of RBracket, in either order, give 24/25 = 0.96 times
\* the zoom, and k such pairs give (24/25)^k times it, which is never the zoom
\* they started from.
\* In the runs themselves: when two presses have been handled, the later one a
\* bracket key, the pan untouched and the zoom not that of the same bracket
\* pressed twice, the zoom is 24/25 of the starting zoom.
C19_ZoomPairLosesFourPercent ==
    /\ (SceneLive /\ pc = "loop") =>
          \A k \in 1..MaxPairs :
             LET out_in == PressPairs(scene, "LBracket", "RBracket", k).zoom
                 in_out == PressPairs(scene, "RBracket", "LBracket", k).zoom
             IN  /\ out_in = RMul(scene.zoom, RPow(<<24, 25>>, k))
                 /\ in_out = out_in
                 /\ out_in # scene.zoom
    /\ (/\ SceneLive
        /\ presses = 2
        /\ scene.pan = InitScene(rtree[1], transform).pan
        /\ \/ event = KeyPress("RBracket") /\ RLt(scene.zoom, RMul(StartZoom, <<6, 5>>))
           \/ event = KeyPress("LBracket") /\ RLt(RMul(StartZoom, <<4, 5>>), scene.zoom))
       => (scene.zoom = RMul(StartZoom, <<24, 25>>) /\ scene.zoom # StartZoom)

\* A zoom-out and then a zoom-in have been handled, and nothing else
C19_Witness ==
    /\ SceneLive
    /\ pc = "poll_events"
    /\ presses = 2
    /\ event = KeyPress("RBracket")
    /\ scene.pan = InitScene(rtree[1], transform).pan
    /\ scene.zoom = RMul(StartZoom, <<24, 25>>)
    /\ RLt(scene.zoom, StartZoom)

=============================================================================
